---- MODULE Spec2Model ----
(***************************************************************************)
(* Model of Lec-02/abstraction.ts: the Car interface, its implementation   *)
(* SportsCar, and the script that drives the instance myCar.               *)
(*                                                                         *)
(* Two SportsCar objects are modelled.  "myCar" is the object of the       *)
(* script (lines 67-79), stepped statement by statement.  "car" is a       *)
(* SportsCar held by an arbitrary client of the Car interface, which may   *)
(* call the five operations in any order.                                  *)
(***************************************************************************)
EXTENDS Integers, Sequences, FiniteSets, TLC

VARIABLES
    cars,     \* object name -> fields of the SportsCar object
    pc,       \* source line of the script's next statement (68..80)
    nCalls,   \* operation calls the script has made so far
    log,      \* console lines written by the most recent statement
    last      \* the most recent call: object, operation, fields before it

vars == <<cars, pc, nCalls, log, last>>

\* ---------------------------------------------------------------- bounds
\* The client shifts up only below this gear.
MaxGear == 8
\* The client brakes only above gear -GearFloor.
GearFloor == 3
\* The client accelerates only below 20 * MaxAccel km/h.
MaxAccel == 4

Brands == {"Ford", "Tata"}
Models == {"Mustang", "Nexon"}

Ops == {"startEngine", "shiftGear", "accelerate", "brake", "stopEngine"}

\* ------------------------------------------------------------ the object
\* Field initialisers and constructor of SportsCar.
NewSportsCar(brand, model) ==
    [brand |-> brand, model |-> model,
     isEngineOn |-> FALSE, currentSpeed |-> 0, currentGear |-> 0]

\* A console line: the template, the `${this.brand} ${this.model}` prefix
\* (empty when the template has none) and the interpolated numbers.
Line(tmpl, who, vals) == [tmpl |-> tmpl, who |-> who, vals |-> vals]

Who(self) == <<self.brand, self.model>>

\* What a method leaves behind: the object's fields and the lines it logged.
Result(self, out) == [self |-> self, out |-> out]

startEngineRenames(self) ==
    Result([self EXCEPT !.isEngineOn = TRUE, !.brand = self.model],
           <<Line("Engine start with a roar...", Who(self), <<>>)>>)

startEngineReset(self) ==
    Result([self EXCEPT !.isEngineOn = TRUE, !.currentGear = 0],
           <<Line("Engine start with a roar...", Who(self), <<>>)>>)

startEngine(self) ==
    Result([self EXCEPT !.isEngineOn = TRUE],
           <<Line("Engine start with a roar...", Who(self), <<>>)>>)

shiftGearNoGuard(self) ==
    LET adv == IF self.currentGear = 6
               THEN <<Line("You cannot shift gear now", <<>>, <<>>)>>
               ELSE <<>>
        new == [self EXCEPT !.currentGear = @ + 1]
    IN  Result(new, adv \o <<Line("Shifted to gear", Who(new),
                                  <<new.currentGear>>)>>)

shiftGearAtLeastSix(self) ==
    IF ~self.isEngineOn
    THEN Result(self, <<Line("Engine is off! Cannot shift a gear.",
                             Who(self), <<>>)>>)
    ELSE LET adv == IF self.currentGear >= 6
                    THEN <<Line("You cannot shift gear now", <<>>, <<>>)>>
                    ELSE <<>>
             new == [self EXCEPT !.currentGear = @ + 1]
         IN  Result(new, adv \o <<Line("Shifted to gear", Who(new),
                                       <<new.currentGear>>)>>)

shiftGearClamped(self) ==
    IF ~self.isEngineOn
    THEN Result(self, <<Line("Engine is off! Cannot shift a gear.",
                             Who(self), <<>>)>>)
    ELSE IF self.currentGear = 6
    THEN Result(self, <<Line("You cannot shift gear now", <<>>, <<>>)>>)
    ELSE LET new == [self EXCEPT !.currentGear = @ + 1]
         IN  Result(new, <<Line("Shifted to gear", Who(new),
                                <<new.currentGear>>)>>)

shiftGear(self) ==
    IF ~self.isEngineOn
    THEN Result(self, <<Line("Engine is off! Cannot shift a gear.",
                             Who(self), <<>>)>>)
    ELSE LET adv == IF self.currentGear = 6
                    THEN <<Line("You cannot shift gear now", <<>>, <<>>)>>
                    ELSE <<>>
             new == [self EXCEPT !.currentGear = @ + 1]
         IN  Result(new, adv \o <<Line("Shifted to gear", Who(new),
                                       <<new.currentGear>>)>>)

accelerateNoGuard(self) ==
    LET new == [self EXCEPT !.currentSpeed = @ + 20]
    IN  Result(new, <<Line("accelerating to gear km/h.", Who(new),
                           <<new.currentSpeed>>)>>)

accelerateCappedByGear(self) ==
    IF ~self.isEngineOn
    THEN Result(self, <<Line("Engine is off! Cannot accelerate.",
                             Who(self), <<>>)>>)
    ELSE LET new == IF self.currentSpeed + 20 <= 40 * self.currentGear
                    THEN [self EXCEPT !.currentSpeed = @ + 20]
                    ELSE self
         IN  Result(new, <<Line("accelerating to gear km/h.", Who(new),
                                <<new.currentSpeed>>)>>)

accelerateByTen(self) ==
    IF ~self.isEngineOn
    THEN Result(self, <<Line("Engine is off! Cannot accelerate.",
                             Who(self), <<>>)>>)
    ELSE LET new == [self EXCEPT !.currentSpeed = @ + 10]
         IN  Result(new, <<Line("accelerating to gear km/h.", Who(new),
                                <<new.currentSpeed>>)>>)

accelerateNeedsGear(self) ==
    IF ~self.isEngineOn
    THEN Result(self, <<Line("Engine is off! Cannot accelerate.",
                             Who(self), <<>>)>>)
    ELSE LET new == IF self.currentGear > 0
                    THEN [self EXCEPT !.currentSpeed = @ + 20]
                    ELSE self
         IN  Result(new, <<Line("accelerating to gear km/h.", Who(new),
                                <<new.currentSpeed>>)>>)

accelerate(self) ==
    IF ~self.isEngineOn
    THEN Result(self, <<Line("Engine is off! Cannot accelerate.",
                             Who(self), <<>>)>>)
    ELSE LET new == [self EXCEPT !.currentSpeed = @ + 20]
         IN  Result(new, <<Line("accelerating to gear km/h.", Who(new),
                                <<new.currentSpeed>>)>>)

BrakeLine(new) ==
    Line("Braking! Speed is now km/h, and Gear lowered to", Who(new),
         <<new.currentSpeed, new.currentGear>>)

brakeNoClamp(self) ==
    LET new == [self EXCEPT !.currentSpeed = @ - 20, !.currentGear = @ - 1]
    IN  Result(new, <<BrakeLine(new)>>)

brakeKeepGear(self) ==
    LET slowed  == self.currentSpeed - 20
        clamped == IF slowed < 0 THEN 0 ELSE slowed
        new == [self EXCEPT !.currentSpeed = clamped]
    IN  Result(new, <<BrakeLine(new)>>)

brakeNeedsEngine(self) ==
    LET slowed  == self.currentSpeed - 20
        clamped == IF slowed < 0 THEN 0 ELSE slowed
        new == IF self.isEngineOn
               THEN [self EXCEPT !.currentSpeed = clamped,
                                 !.currentGear = @ - 1]
               ELSE self
    IN  Result(new, <<BrakeLine(new)>>)

brake(self) ==
    LET slowed  == self.currentSpeed - 20
        clamped == IF slowed < 0 THEN 0 ELSE slowed
        new == [self EXCEPT !.currentSpeed = clamped, !.currentGear = @ - 1]
    IN  Result(new, <<BrakeLine(new)>>)

stopEngineKeepSpeed(self) ==
    Result([self EXCEPT !.isEngineOn = FALSE, !.currentGear = 0],
           <<Line("Engine turned off.", Who(self), <<>>)>>)

stopEngineKeepGear(self) ==
    Result([self EXCEPT !.isEngineOn = FALSE, !.currentSpeed = 0],
           <<Line("Engine turned off.", Who(self), <<>>)>>)

stopEngine(self) ==
    Result([self EXCEPT !.isEngineOn = FALSE, !.currentGear = 0,
                        !.currentSpeed = 0],
           <<Line("Engine turned off.", Who(self), <<>>)>>)

\* A call through the Car interface, dispatched to SportsCar.
Call(op, self) ==
    CASE op = "startEngine" -> startEngine(self)
      [] op = "shiftGear"   -> shiftGear(self)
      [] op = "accelerate"  -> accelerate(self)
      [] op = "brake"       -> brake(self)
      [] op = "stopEngine"  -> stopEngine(self)

\* ------------------------------------------------------------ the script
ScriptNine ==
    <<"startEngine", "shiftGear", "accelerate", "shiftGear", "accelerate",
      "brake", "shiftGear", "accelerate", "stopEngine">>

\* The calls of lines 69..79, in order.
Script ==
    <<"startEngine", "shiftGear", "accelerate", "shiftGear", "accelerate",
      "brake", "shiftGear", "accelerate", "shiftGear", "brake", "stopEngine">>

\* Line 68 prints the banner; Script[i] is the call of line 68 + i.
BannerLine == 68
ScriptEnd == BannerLine + Len(Script) + 1

\* ------------------------------------------------------------- the model
Init ==
    /\ \E b \in Brands, m \in Models :
          cars = [myCar |-> NewSportsCar("Ford", "Mustang"),
                  car   |-> NewSportsCar(b, m)]
    /\ pc = BannerLine
    /\ nCalls = 0
    /\ log = <<>>
    /\ last = [obj |-> "none", op |-> "new",
               pre |-> NewSportsCar("Ford", "Mustang")]

\* One call of op on object obj, run to completion.
Invoke(obj, op) ==
    LET r == Call(op, cars[obj])
    IN  /\ cars' = [cars EXCEPT ![obj] = r.self]
        /\ log' = r.out
        /\ last' = [obj |-> obj, op |-> op, pre |-> cars[obj]]

\* Line 68.
DriverBanner ==
    /\ pc = BannerLine
    /\ pc' = pc + 1
    /\ log' = <<Line("--- Operating the Car (via the Car interface) ---",
                     <<>>, <<>>)>>
    /\ last' = [obj |-> "none", op |-> "banner", pre |-> cars.myCar]
    /\ UNCHANGED <<cars, nCalls>>

\* Lines 69..79.
DriverCall ==
    /\ pc > BannerLine
    /\ pc < ScriptEnd
    /\ Invoke("myCar", Script[pc - BannerLine])
    /\ pc' = pc + 1
    /\ nCalls' = nCalls + 1

Driver == DriverBanner \/ DriverCall

\* The client's calls on its own SportsCar.
StartEngine ==
    /\ Invoke("car", "startEngine")
    /\ UNCHANGED <<pc, nCalls>>

ShiftGear ==
    /\ cars.car.currentGear < MaxGear
    /\ Invoke("car", "shiftGear")
    /\ UNCHANGED <<pc, nCalls>>

Accelerate ==
    /\ cars.car.currentSpeed < 20 * MaxAccel
    /\ Invoke("car", "accelerate")
    /\ UNCHANGED <<pc, nCalls>>

Brake ==
    /\ cars.car.currentGear > -GearFloor
    /\ Invoke("car", "brake")
    /\ UNCHANGED <<pc, nCalls>>

StopEngine ==
    /\ Invoke("car", "stopEngine")
    /\ UNCHANGED <<pc, nCalls>>

Next ==
    \/ DriverBanner
    \/ DriverCall
    \/ StartEngine
    \/ ShiftGear
    \/ Accelerate
    \/ Brake
    \/ StopEngine

Spec == Init /\ [][Next]_vars

\* ------------------------------------------------------ shared vocabulary
\* The object the most recent call acted on, before and after the call.
Called(op) == last.op = op /\ last.obj \in {"myCar", "car"}
Pre == last.pre
Post == cars[last.obj]

Templates == {log[i].tmpl : i \in 1..Len(log)}

EngineOffTemplates ==
    {"Engine is off! Cannot shift a gear.", "Engine is off! Cannot accelerate."}

SameFields(a, b) ==
    /\ a.isEngineOn = b.isEngineOn
    /\ a.currentGear = b.currentGear
    /\ a.currentSpeed = b.currentSpeed

Max(a, b) == IF a > b THEN a ELSE b

\* ------------------------------------------------------------------- C1
\* C1: whatever sequence of startEngine, shiftGear, accelerate, brake and
\* stopEngine is applied to a freshly constructed vehicle, its speed is
\* never negative.
SpeedNeverNegative ==
    \A o \in DOMAIN cars : cars[o].currentSpeed >= 0

\* brake has just run on a client vehicle that was already standing still.
BrakeAtStandstill ==
    /\ last.obj = "car"
    /\ last.op = "brake"
    /\ Pre.currentSpeed = 0
    /\ Post.currentSpeed = 0

\* ------------------------------------------------------------------- C2
\* C2: with the engine off, accelerate and shiftGear leave gear, speed and
\* the engine flag as they were and log only that operation's "engine off"
\* line.
EngineOffLine(op, self) ==
    IF op = "shiftGear"
    THEN Line("Engine is off! Cannot shift a gear.", Who(self), <<>>)
    ELSE Line("Engine is off! Cannot accelerate.", Who(self), <<>>)

EngineOffCallsChangeNothing ==
    (/\ Called("shiftGear") \/ Called("accelerate")
     /\ ~Pre.isEngineOn)
    => /\ Post = Pre
       /\ log = <<EngineOffLine(last.op, Pre)>>

\* shiftGear has just been refused on a vehicle parked in a negative gear.
ShiftRefusedEngineOff ==
    /\ Called("shiftGear")
    /\ ~Pre.isEngineOn
    /\ Pre.currentGear < 0
    /\ Post.currentGear = Pre.currentGear

\* ------------------------------------------------------------------- C3
\* C3: from any state, stopEngine leaves the engine off, gear 0 and speed
\* 0: the state of a freshly constructed vehicle.
StopEngineResets ==
    Called("stopEngine") => Post = NewSportsCar(Pre.brand, Pre.model)

\* stopEngine has just run on a moving vehicle whose gear was above 6.
StoppedFromHighGear ==
    /\ Called("stopEngine")
    /\ Pre.isEngineOn
    /\ Pre.currentGear > 6
    /\ Pre.currentSpeed > 0
    /\ ~Post.isEngineOn

\* ------------------------------------------------------------------- C4
\* C4: every invocation of one of the five operations logs exactly one
\* line.
OneLinePerCall ==
    last.op \in Ops => Len(log) = 1

\* ------------------------------------------------------------------- C5
\* C5: with the engine on, shiftGear always raises gear by one; at gear 6
\* it logs the "cannot shift" advisory and still goes to gear 7, so gears
\* above 6 are reached.
ShiftAtSixStillShifts ==
    (Called("shiftGear") /\ Pre.isEngineOn)
    => /\ Post.currentGear = Pre.currentGear + 1
       /\ Pre.currentGear = 6
          => /\ Post.currentGear = 7
             /\ "You cannot shift gear now" \in Templates

\* shiftGear has just run at gear 6 and the vehicle is in gear 7.
ShiftedPastSix ==
    /\ Called("shiftGear")
    /\ Pre.isEngineOn
    /\ Pre.currentGear = 6
    /\ Post.currentGear = 7
    /\ "You cannot shift gear now" \in Templates

\* ------------------------------------------------------------------- C6
\* The scenario as the claim lists it: the operation of each step and the
\* engine flag, gear and speed after it.
ScenarioOps ==
    <<"startEngine", "shiftGear", "accelerate", "shiftGear", "accelerate",
      "brake", "shiftGear", "accelerate", "shiftGear", "brake", "stopEngine">>

ScenarioStates ==
    << <<TRUE, 0, 0>>,  <<TRUE, 1, 0>>,  <<TRUE, 1, 20>>, <<TRUE, 2, 20>>,
       <<TRUE, 2, 40>>, <<TRUE, 1, 20>>, <<TRUE, 2, 20>>, <<TRUE, 2, 40>>,
       <<TRUE, 3, 40>>, <<TRUE, 2, 20>>, <<FALSE, 0, 0>> >>

\* C6: the script, run on a fresh vehicle, makes the listed calls in order
\* and passes through the listed states; it runs to its end, where the
\* engine is off with gear 0 and speed 0; no step logs an "engine off" or
\* "cannot shift" line.
DriverScenario ==
    LET my == cars.myCar
    IN  /\ nCalls = 0 => SameFields(my, NewSportsCar("Ford", "Mustang"))
        /\ nCalls <= Len(ScenarioStates)
        /\ nCalls > 0
           => /\ my.isEngineOn   = ScenarioStates[nCalls][1]
              /\ my.currentGear  = ScenarioStates[nCalls][2]
              /\ my.currentSpeed = ScenarioStates[nCalls][3]
        /\ last.obj = "myCar"
           => /\ last.op = ScenarioOps[nCalls]
              /\ Templates \cap (EngineOffTemplates
                                 \cup {"You cannot shift gear now"}) = {}
        /\ pc < ScriptEnd => ENABLED Driver
        /\ pc = ScriptEnd
           => /\ nCalls = Len(ScenarioStates)
              /\ SameFields(my, NewSportsCar("Ford", "Mustang"))

\* The script has just made its last call, stopEngine, from gear 2 at
\* 20 km/h.
DriverFinished ==
    /\ pc = ScriptEnd
    /\ last.obj = "myCar"
    /\ last.op = "stopEngine"
    /\ Pre.currentGear = 2
    /\ Pre.currentSpeed = 20
    /\ ~cars.myCar.isEngineOn

\* ------------------------------------------------------------------- C7
\* C7 as stated: the script makes exactly nine operation calls on the one
\* vehicle ("Ford", "Mustang").
DriverMakesNineCalls ==
    pc = ScriptEnd
    => /\ nCalls = 9
       /\ Who(cars.myCar) = <<"Ford", "Mustang">>

\* C7, amended: the script makes exactly eleven operation calls, all on
\* the one vehicle ("Ford", "Mustang").
DriverMakesElevenCalls ==
    /\ nCalls = pc - BannerLine - (IF pc = BannerLine THEN 0 ELSE 1)
    /\ last.obj = "myCar" => Who(Post) = <<"Ford", "Mustang">>
    /\ pc = ScriptEnd
       => /\ nCalls = 11
          /\ Who(cars.myCar) = <<"Ford", "Mustang">>

\* The script has run to its end and eleven calls were counted.
DriverCountedEleven ==
    /\ pc = ScriptEnd
    /\ nCalls = 11
    /\ last.obj = "myCar"

\* ------------------------------------------------------------------- C8
\* C8: brake needs no running engine: in every state it sets speed to
\* max(0, speed - 20), lowers gear by one and leaves the engine flag alone;
\* at speed 0 the speed stays 0, and on a fresh vehicle the gear becomes -1.
BrakeInEveryState ==
    Called("brake")
    => /\ Post.currentSpeed = Max(0, Pre.currentSpeed - 20)
       /\ Post.currentGear = Pre.currentGear - 1
       /\ Post.isEngineOn = Pre.isEngineOn
       /\ Pre.currentSpeed = 0 => Post.currentSpeed = 0
       /\ Pre = NewSportsCar(Pre.brand, Pre.model) => Post.currentGear = -1

\* brake has just run on a fresh vehicle, engine off, and the gear is -1.
BrakedFreshVehicle ==
    /\ Called("brake")
    /\ Pre = NewSportsCar(Pre.brand, Pre.model)
    /\ ~Post.isEngineOn
    /\ Post.currentGear = -1
    /\ Post.currentSpeed = 0

\* ------------------------------------------------------------------- C9
\* C9: with the engine on, accelerate adds exactly 20 to the speed and
\* leaves gear and engine flag alone, whatever the gear (0 and negative
\* gears included) and whatever the speed.
AccelerateAddsTwenty ==
    (Called("accelerate") /\ Pre.isEngineOn)
    => /\ Post.currentSpeed = Pre.currentSpeed + 20
       /\ Post.currentGear = Pre.currentGear
       /\ Post.isEngineOn = Pre.isEngineOn

\* accelerate has just run with the engine on in a negative gear.
AcceleratedInNegativeGear ==
    /\ Called("accelerate")
    /\ Pre.isEngineOn
    /\ Pre.currentGear < 0
    /\ Pre.currentSpeed > 0
    /\ Post.currentSpeed = Pre.currentSpeed + 20

\* ------------------------------------------------------------------ C10
\* C10: startEngine sets the engine flag and leaves gear and speed alone
\* in every state; with the engine already on it changes nothing; a
\* negative gear left by braking with the engine off survives it.
StartEngineOnlySetsFlag ==
    Called("startEngine")
    => /\ Post.isEngineOn
       /\ Post.currentGear = Pre.currentGear
       /\ Post.currentSpeed = Pre.currentSpeed
       /\ Pre.isEngineOn => Post = Pre

\* startEngine has just run on a vehicle that was braked into a negative
\* gear with the engine off, and the gear is still negative.
StartedInNegativeGear ==
    /\ Called("startEngine")
    /\ ~Pre.isEngineOn
    /\ Pre.currentGear < 0
    /\ Post.isEngineOn
    /\ Post.currentGear = Pre.currentGear

\* ------------------------------------------------------------------ C11
\* C11: no operation fails: in every reachable state each of the five
\* operations can be called on each vehicle and completes with well-formed
\* fields and at least one logged line (the client's calls are held back
\* only by the exploration bounds); an "engine off" line is logged exactly
\* when shiftGear or accelerate is called with the engine off, and that
\* call then changes nothing.
NoOperationFails ==
    /\ \A o \in DOMAIN cars, op \in Ops :
          LET r == Call(op, cars[o])
          IN  /\ DOMAIN r.self = DOMAIN cars[o]
              /\ r.self.isEngineOn \in BOOLEAN
              /\ r.self.currentGear \in Int
              /\ r.self.currentSpeed \in Int
              /\ Len(r.out) >= 1
    /\ ENABLED StartEngine
    /\ ENABLED StopEngine
    /\ cars.car.currentGear < MaxGear => ENABLED ShiftGear
    /\ cars.car.currentSpeed < 20 * MaxAccel => ENABLED Accelerate
    /\ cars.car.currentGear > -GearFloor => ENABLED Brake
    /\ pc < ScriptEnd => ENABLED Driver
    /\ last.op \in Ops
       => /\ (Templates \cap EngineOffTemplates # {})
             <=> (last.op \in {"shiftGear", "accelerate"} /\ ~Pre.isEngineOn)
          /\ (Templates \cap EngineOffTemplates # {}) => Post = Pre

\* accelerate has just been called on the client's vehicle with the engine
\* off: it logged its "engine off" line and changed nothing.
AccelerateRefusedEngineOff ==
    /\ last.obj = "car"
    /\ last.op = "accelerate"
    /\ ~Pre.isEngineOn
    /\ Templates = {"Engine is off! Cannot accelerate."}
    /\ Post = Pre

\* ------------------------------------------------------------------ C12
\* C12: the brand and model a vehicle was constructed with are changed by
\* no operation: every step leaves the identity of every vehicle as it was,
\* and every line that names a vehicle names the one the call was made on.
IdentityStep ==
    /\ \A o \in DOMAIN cars : Who(cars[o])' = Who(cars[o])
    /\ \A i \in 1..Len(log') :
          log'[i].who # <<>> => log'[i].who = Who(cars[last'.obj])

IdentityNeverChanges == [][IdentityStep]_vars

\* Several calls into its life, the client's vehicle constructed as
\* ("Tata", "Nexon") has just been stopped from a positive gear and still
\* carries that identity, as the script's vehicle carries ("Ford",
\* "Mustang").
IdentityKeptAfterCalls ==
    /\ last.obj = "car"
    /\ last.op = "stopEngine"
    /\ Pre.currentGear > 0
    /\ Who(Pre) = <<"Tata", "Nexon">>
    /\ Who(Post) = <<"Tata", "Nexon">>
    /\ nCalls > 0
    /\ Who(cars.myCar) = <<"Ford", "Mustang">>

\* ------------------------------------------------------------------ C13
\* C13: in every reachable state a vehicle whose engine is off has speed 0.
EngineOffMeansStandstill ==
    \A o \in DOMAIN cars : ~cars[o].isEngineOn => cars[o].currentSpeed = 0

\* A vehicle moving at 40 km/h or more has just had its engine stopped and
\* now stands still with the engine off.
StoppedWhileMoving ==
    /\ Called("stopEngine")
    /\ Pre.isEngineOn
    /\ Pre.currentSpeed >= 40
    /\ Pre.currentGear <= 0
    /\ ~Post.isEngineOn
    /\ Post.currentSpeed = 0

\* ------------------------------------------------------------------ C14
\* C14: the "cannot shift" advisory is logged exactly when shiftGear is
\* called with the engine on and gear 6, and by no other call; from gear 7
\* upwards shiftGear raises the gear by one and logs no advisory.
AdvisoryOnlyAtSix ==
    /\ ("You cannot shift gear now" \in Templates)
       <=> (Called("shiftGear") /\ Pre.isEngineOn /\ Pre.currentGear = 6)
    /\ (Called("shiftGear") /\ Pre.isEngineOn /\ Pre.currentGear >= 7)
       => /\ Post.currentGear = Pre.currentGear + 1
          /\ Templates = {"Shifted to gear"}

\* shiftGear has just run at gear 7: the gear is 8 and no advisory was
\* logged.
ShiftedAboveSeven ==
    /\ Called("shiftGear")
    /\ Pre.isEngineOn
    /\ Pre.currentGear = 7
    /\ Post.currentGear = 8
    /\ "You cannot shift gear now" \notin Templates

\* ------------------------------------------------------------------ C15
\* C15: in every reachable state a vehicle whose engine is off has gear
\* 0 or lower; braking with the engine off lowers the gear by one each
\* time, as far below 0 as it is repeated.
EngineOffMeansNoGear ==
    /\ \A o \in DOMAIN cars : ~cars[o].isEngineOn => cars[o].currentGear <= 0
    /\ (Called("brake") /\ ~Pre.isEngineOn)
       => /\ ~Post.isEngineOn
          /\ Post.currentGear = Pre.currentGear - 1
          /\ Post.currentGear < 0

\* brake has just run with the engine off in gear -2, leaving gear -3.
BrakedDeeperEngineOff ==
    /\ Called("brake")
    /\ ~Pre.isEngineOn
    /\ Pre.currentGear = -2
    /\ ~Post.isEngineOn
    /\ Post.currentGear = -3

\* ------------------------------------------------------------------ C16
\* The speed an operation leaves, as the claim has it: decided by the
\* operation, the engine flag and the speed before, never by the gear.
SpeedAfter(op, engineOn, speed) ==
    CASE op = "accelerate" -> IF engineOn THEN speed + 20 ELSE speed
      [] op = "brake"      -> Max(0, speed - 20)
      [] op = "stopEngine" -> 0
      [] OTHER             -> speed

\* The gear an operation leaves: decided by the operation, the engine flag
\* and the gear before, never by the speed.
GearAfter(op, engineOn, gear) ==
    CASE op = "shiftGear"  -> IF engineOn THEN gear + 1 ELSE gear
      [] op = "brake"      -> gear - 1
      [] op = "stopEngine" -> 0
      [] OTHER             -> gear

\* C16: gear and speed are independent: the speed after any call does not
\* depend on the gear nor the gear on the speed, so a vehicle can move in
\* gear 0 or a negative gear.
GearAndSpeedIndependent ==
    last.op \in Ops
    => /\ Post.currentSpeed
            = SpeedAfter(last.op, Pre.isEngineOn, Pre.currentSpeed)
       /\ Post.currentGear
            = GearAfter(last.op, Pre.isEngineOn, Pre.currentGear)

\* startEngine then accelerate on a fresh vehicle: 20 km/h in gear 0.
MovingInGearZero ==
    /\ Called("accelerate")
    /\ Pre.isEngineOn
    /\ Pre.currentGear = 0
    /\ Pre.currentSpeed = 0
    /\ Post.currentSpeed = 20
    /\ Post.currentGear = 0

\* ------------------------------------------------------------------ C17
\* C17: in every reachable state the speed is a non-negative multiple of
\* 20, so whenever brake's decrement goes below 0 and is clamped, the speed
\* before was exactly 0: the clamp never cuts a partial decrement short.
SpeedMultipleOfTwenty ==
    /\ \A o \in DOMAIN cars :
          /\ cars[o].currentSpeed >= 0
          /\ cars[o].currentSpeed % 20 = 0
    /\ (Called("brake") /\ Pre.currentSpeed - 20 < 0)
       => /\ Pre.currentSpeed = 0
          /\ Post.currentSpeed = 0
    /\ (Called("brake") /\ Pre.currentSpeed > 0)
       => Post.currentSpeed = Pre.currentSpeed - 20

\* brake has just been clamped on the client's vehicle: engine on, in a
\* positive gear, standing still before and after.
ClampedAtStandstill ==
    /\ last.obj = "car"
    /\ last.op = "brake"
    /\ Pre.isEngineOn
    /\ Pre.currentGear > 0
    /\ Pre.currentSpeed = 0
    /\ Post.currentSpeed = 0

====
